---- MODULE Spec2Model ----
(***************************************************************************)
(* Model of the YouTube download Lambda (lambda/youtube_download/handler.rb) *)
(* YouTubeDownloader#lambda_handler iterates the backlog sequentially and   *)
(* dispatches each item to download_video_to_s3 (streaming multipart        *)
(* upload) or download_video (local file, optional put_object).             *)
(* Every external call (subprocess, storage) is a step whose outcome        *)
(* (return value or raised exception) is chosen nondeterministically.       *)
(***************************************************************************)
EXTENDS Integers, Sequences, FiniteSets, TLC

\* ---------------------------------------------------------------- bounds
MaxItems == 2
MaxBytes == 6
MaxStreamBytes == 12
MaxWrites == 6
PipeCap == 1
MaxRuns == 2
MaxLimit == 2
MaxEtagLen == 4

\* chunk_size = 5 * 1024 * 1024, counted in MiB
ChunkSize == 5

VideoIds == [i \in 1..MaxItems |-> 100 + i]
Extensions == {".m4a", ".webm"}
AllExtensions == {".mp4", ".m4a", ".mp3", ".webm", ".ogg", ".mkv", ".opus", ".M4A", ""}
Quote == "\""
RawEtags == {<<"e">>, <<Quote, "e", Quote>>}

VARIABLES
  direct_s3_upload,     \* ENV['DIRECT_S3_UPLOAD'] == 'true'
  upload_to_s3_env,     \* ENV['UPLOAD_TO_S3'] == 'true'
  home_set,             \* ENV['HOME'] || ENV['USERPROFILE'] is not nil
  stdout_limit,         \* the most bytes a streaming subprocess writes to stdout
  probe_exts,           \* the extensions File.extname may find in the probed filename
  child_script,         \* the writes the streaming subprocess makes, in its order
  child_pos,            \* how many of them it has made
  child_exited,         \* the subprocess has exited (its pipe ends are closed)
  out_pipe,             \* bytes in the stdout pipe
  err_pipe,             \* bytes in the stderr pipe
  pipes_closed,         \* popen3's ensure closed the parent's pipe ends
  read_buf,             \* bytes stdout.read has gathered for the current chunk
  pipe_pc,              \* where the popen3 block is
  err_thread,           \* stderr_thread: "unborn", "running", "finished"
  pipe_eof,             \* stdout.read returned nil
  pipe_joined,          \* stderr_thread.join returned
  pipe_raised,          \* a storage call raised inside the popen3 block
  error_output_len,     \* number of lines in error_output
  update_runs,          \* runs of the UpdateTranscribed script so far
  api_param,            \* GET /api/videos: searchParams.get('transcribed')
  api_limit,            \* GET /api/videos: the limit the route computed
  api_pc,               \* "request", "index", "scan", "responded"
  api_videos,           \* the videos of the JSON response
  raw_etag,             \* part_response.etag as upload_part returned it
  etag_value,           \* the etag put into the part list
  etag_again,           \* the normalisation applied to etag_value
  etag_pc,              \* "raw", "stored", "again"
  untranscribed_videos, \* the backlog returned by fetch_untranscribed_videos
  catalog,              \* the DynamoDB table, in scan order
  exclusive_start_key,  \* scan_params[:exclusive_start_key]; 0 while it is not set
  videos,               \* the accumulator of fetch_untranscribed_videos
  scan_failed,          \* history: a scan call raised a ServiceError
  ingested,             \* history: the video ids the ingest job inserted
  pc,                   \* position of the single handler thread
  index,                \* each_with_index counter (0-based)
  download_results,     \* results appended so far
  response,             \* the handler's return value
  sleep_count,          \* number of sleep(1) calls made
  started,              \* history: number of items entered so far
  file_extension,       \* locals of download_video_to_s3
  stdout_pos,           \* bytes consumed from stdout so far
  stdout_eof,           \* the subprocess has closed stdout and nothing is left to read
  exit_success,         \* wait_thr.value.success?
  upload_id,            \* 0 while no multipart upload was initiated
  parts,
  part_number,
  chunk,                \* the chunk last returned by stdout.read
  chunks_read,          \* history: the non-empty chunks read, in order
  result,               \* the value returned by the per-item method
  upload_error,         \* the exception held by rescue => upload_error
  uploaded,             \* history, per item: the (part_number, body) sent by upload_part
  complete_arg,         \* history, per item: the part list passed to complete
  create_calls,         \* history, per item: storage calls issued
  abort_calls,
  complete_calls,
  put_calls,
  put_stored,           \* per item: the put_object of upload_to_s3 stored the file
  yt_dlp_path,          \* "unset" before find_yt_dlp_executable returned, then "nil" or "path"
  version_calls,        \* history, per item: yt-dlp --version probes were run
  probe_calls,          \* history, per item: filename probes (capture3 of info_cmd)
  probe_status,         \* per item: how the filename probe ended ("none" before it)
  spawn_calls,          \* history, per item: streaming subprocesses started (popen3)
  capture_calls,        \* history, per item: local downloads run (capture3 of cmd)
  next_upload_id,       \* storage side: next identifier to hand out
  uploads               \* storage side: the multipart uploads, by upload_id

catalogVars == <<catalog, exclusive_start_key, videos, scan_failed, ingested>>
configVars == <<direct_s3_upload, upload_to_s3_env, home_set, stdout_limit, probe_exts>>
pipeVars == <<child_script, child_pos, child_exited, out_pipe, err_pipe, pipes_closed,
              read_buf, pipe_pc, err_thread, pipe_eof, pipe_joined, pipe_raised,
              error_output_len>>
etagVars == <<raw_etag, etag_value, etag_again, etag_pc, update_runs>>
apiVars == <<api_param, api_limit, api_pc, api_videos>>
envVars == <<configVars, untranscribed_videos, catalogVars, pipeVars, etagVars, apiVars>>
loopVars == <<index, download_results, response, sleep_count, started>>
streamVars == <<file_extension, stdout_pos, stdout_eof, exit_success>>
sessionVars == <<upload_id, parts, part_number, chunk, chunks_read>>
callVars == <<uploaded, complete_arg, create_calls, abort_calls, complete_calls, put_calls, put_stored>>
procVars == <<yt_dlp_path, version_calls, probe_calls, probe_status, spawn_calls, capture_calls>>
storeVars == <<next_upload_id, uploads>>
vars == <<envVars, procVars, loopVars, streamVars, sessionVars, callVars, storeVars, pc, result, upload_error>>

NoChunk == [off |-> 0, len |-> 0]
NoResult == [video_id |-> 0]
NoResponse == [statusCode |-> 0]

\* the representations of the transcribed attribute found in the table: the
\* ingest job writes the boolean false, UpdateTranscribed writes the numbers 0 / 1,
\* update_transcribe_status sets the boolean true
NumberZero == <<"N", "0">>
NumberOne == <<"N", "1">>
BoolFalse == <<"BOOL", "false">>
BoolTrue == <<"BOOL", "true">>
TranscribedValues == {NumberZero, NumberOne, BoolFalse, BoolTrue}

\* an item of the table as an earlier ingest run left it
CatalogItem(id, t) ==
  [video_id |-> id, transcribed |-> t, title |-> "old", views |-> 0,
   created_at |-> 0, updated_at |-> 0]

\* the tables the handler may find: video_id is the key, so ids are distinct
Catalogs ==
  UNION {{[i \in 1..n |-> CatalogItem(VideoIds[i], f[i])] :
            f \in [1..n -> TranscribedValues]} : n \in 0..MaxItems}

\* a count of all results instead of the successful ones
CountSuccess_all(rs) == Len(rs)

RECURSIVE CountSuccess(_)
\* download_results.count { |r| r[:success] }
CountSuccess(rs) ==
  IF rs = <<>> THEN 0
  ELSE (IF Head(rs).success THEN 1 ELSE 0) + CountSuccess(Tail(rs))

\* the video the loop is at
Video == untranscribed_videos[index + 1]

\* s3_key = "#{video_id}#{file_extension}"
S3Key(video_id, ext) == <<video_id, ext>>

\* "Exception: #{e.message}"; an exception's message names the call that raised
ExceptionMessage(e) == <<"Exception: ", e>>

FailureResult(video_id, message) ==
  [video_id |-> video_id, success |-> FALSE, message |-> message]

StreamSuccessResult(video_id, key, n) ==
  [video_id |-> video_id, success |-> TRUE, s3_key |-> key,
   parts_count |-> n, message |-> <<"Direct S3 upload successful">>]

LocalSuccessResult(video_id) ==
  [video_id |-> video_id, success |-> TRUE, file_path |-> video_id,
   message |-> <<"Download successful">>]

\* searchParams.get gives null when the parameter is absent
NoParam == "null"
TranscribedParams == {NoParam, "", "true", "false", "TRUE", "1"}

\* the handler's own state before its first step
InitHandler ==
  /\ untranscribed_videos = <<>>
  /\ exclusive_start_key = 0
  /\ videos = <<>>
  /\ scan_failed = FALSE
  /\ ingested = {}
  /\ pc = "fetch"
  /\ index = 0
  /\ download_results = <<>>
  /\ response = NoResponse
  /\ sleep_count = 0
  /\ started = 0
  /\ file_extension = ""
  /\ stdout_pos = 0
  /\ stdout_eof = FALSE
  /\ exit_success = FALSE
  /\ upload_id = 0
  /\ parts = <<>>
  /\ part_number = 1
  /\ chunk = NoChunk
  /\ chunks_read = <<>>
  /\ result = NoResult
  /\ upload_error = "none"
  /\ uploaded = <<>>
  /\ complete_arg = <<>>
  /\ create_calls = 0
  /\ abort_calls = 0
  /\ complete_calls = 0
  /\ put_calls = 0
  /\ put_stored = FALSE
  /\ yt_dlp_path = "unset"
  /\ version_calls = 0
  /\ probe_calls = 0
  /\ probe_status = "none"
  /\ spawn_calls = 0
  /\ capture_calls = 0
  /\ next_upload_id = 1
  /\ uploads = <<>>
  /\ child_pos = 0
  /\ child_exited = FALSE
  /\ out_pipe = 0
  /\ err_pipe = 0
  /\ pipes_closed = FALSE
  /\ read_buf = 0
  /\ pipe_pc = "thread_new"
  /\ err_thread = "unborn"
  /\ pipe_eof = FALSE
  /\ pipe_joined = FALSE
  /\ pipe_raised = FALSE
  /\ error_output_len = 0
  /\ etag_value = <<>>
  /\ etag_again = <<>>
  /\ etag_pc = "raw"
  /\ update_runs = 0
  /\ api_pc = "request"
  /\ api_videos = <<>>

Init ==
  /\ direct_s3_upload \in BOOLEAN
  /\ upload_to_s3_env \in BOOLEAN
  /\ home_set \in BOOLEAN
  /\ stdout_limit = MaxBytes
  /\ probe_exts = Extensions
  /\ child_script = <<>>
  /\ raw_etag = <<>>
  /\ api_param = NoParam
  /\ api_limit = 1
  /\ catalog \in Catalogs
  /\ InitHandler

\* one pending video streamed to the store: any probed extension, a longer stream
InitStream ==
  /\ direct_s3_upload = TRUE
  /\ upload_to_s3_env = FALSE
  /\ home_set = TRUE
  /\ stdout_limit = MaxStreamBytes
  /\ probe_exts = AllExtensions
  /\ child_script = <<>>
  /\ raw_etag = <<>>
  /\ api_param = NoParam
  /\ api_limit = 1
  /\ catalog = <<CatalogItem(VideoIds[1], NumberZero)>>
  /\ InitHandler

\* every order in which a subprocess may write up to MaxWrites bytes
Scripts == UNION {[1..n -> {"out", "err"}] : n \in 0..MaxWrites}

\* the popen3 block of one item, the subprocess just spawned
InitPipes ==
  /\ direct_s3_upload = TRUE
  /\ upload_to_s3_env = FALSE
  /\ home_set = TRUE
  /\ stdout_limit = MaxBytes
  /\ probe_exts = Extensions
  /\ child_script \in Scripts
  /\ raw_etag = <<>>
  /\ api_param = NoParam
  /\ api_limit = 1
  /\ catalog = <<CatalogItem(VideoIds[1], NumberZero)>>
  /\ InitHandler

\* a GET /api/videos request without search term or last_key, on any table
InitVideos ==
  /\ direct_s3_upload = TRUE
  /\ upload_to_s3_env = FALSE
  /\ home_set = TRUE
  /\ stdout_limit = MaxBytes
  /\ probe_exts = Extensions
  /\ child_script = <<>>
  /\ raw_etag = <<>>
  /\ api_param \in TranscribedParams
  /\ api_limit \in 1..MaxLimit
  /\ catalog \in Catalogs
  /\ InitHandler

\* every identifier of up to MaxEtagLen characters, quotes anywhere
EtagInputs == UNION {[1..n -> {Quote, "e", "f"}] : n \in 0..MaxEtagLen}

\* one upload_part response whose etag is about to be recorded
InitEtag ==
  /\ direct_s3_upload = TRUE
  /\ upload_to_s3_env = FALSE
  /\ home_set = TRUE
  /\ stdout_limit = MaxBytes
  /\ probe_exts = Extensions
  /\ child_script = <<>>
  /\ raw_etag \in EtagInputs
  /\ api_param = NoParam
  /\ api_limit = 1
  /\ catalog = <<CatalogItem(VideoIds[1], NumberZero)>>
  /\ InitHandler

\* the locals of the per-item method as they are when it is entered, and the
\* per-item histories empty
FreshLocals ==
  /\ file_extension' = ""
  /\ stdout_pos' = 0
  /\ stdout_eof' = FALSE
  /\ exit_success' = FALSE
  /\ upload_id' = 0
  /\ parts' = <<>>
  /\ part_number' = 1
  /\ chunk' = NoChunk
  /\ chunks_read' = <<>>
  /\ result' = NoResult
  /\ upload_error' = "none"
  /\ uploaded' = <<>>
  /\ complete_arg' = <<>>
  /\ create_calls' = 0
  /\ abort_calls' = 0
  /\ complete_calls' = 0
  /\ put_calls' = 0
  /\ put_stored' = FALSE
  /\ yt_dlp_path' = "unset"
  /\ version_calls' = 0
  /\ probe_calls' = 0
  /\ probe_status' = "none"
  /\ spawn_calls' = 0
  /\ capture_calls' = 0

\* the per-item method returns r to the each_with_index block
Return(r) ==
  /\ result' = r
  /\ pc' = "append"

\* rescue => e of lambda_handler: the whole batch answers 500
HandlerRescue(e) ==
  /\ response' = [statusCode |-> 500, error |-> "Internal server error", message |-> e]
  /\ pc' = "returned"

\* ':false_val' => 0 of the filter expression: the number 0
FalseVal == NumberZero

\* filter_expression '#transcribed = :false_val': attribute values of different
\* types are never equal
ScanFilter(item) == item.transcribed = FalseVal

RECURSIVE SelectIds(_, _, _)
\* result.items of one page: the items at positions from..to that pass the
\* filter, in scan order, projected to their video_id
SelectIds(cat, from, to) ==
  IF from > to THEN <<>>
  ELSE (IF ScanFilter(cat[from]) THEN <<cat[from].video_id>> ELSE <<>>)
         \o SelectIds(cat, from + 1, to)

\* an accumulator overwritten by each page
VideosConcat_replace(vs, items) == items

\* line 190: videos.concat(result.items)
VideosConcat(vs, items) == vs \o items

\* a rescue that keeps what the earlier pages gave
FetchRescue_partial(vs) == vs

\* lines 199-201: rescue Aws::DynamoDB::Errors::ServiceError gives []
FetchRescue(vs) == <<>>

\* lines 187-197 of fetch_untranscribed_videos: one @dynamodb.scan call; the table
\* evaluates the next n items after exclusive_start_key and hands back
\* last_evaluated_key unless it reached the end
Scan ==
  /\ pc = "fetch"
  /\ \/ /\ scan_failed' = TRUE
        /\ untranscribed_videos' = FetchRescue(videos)
        /\ pc' = "handler"
        /\ UNCHANGED <<exclusive_start_key, videos>>
     \/ /\ \E n \in (IF exclusive_start_key = Len(catalog) THEN {0}
                    ELSE 1..(Len(catalog) - exclusive_start_key)) :
             LET last == exclusive_start_key + n
                 collected == VideosConcat(videos, SelectIds(catalog, exclusive_start_key + 1, last))
             IN /\ videos' = collected
                /\ IF last = Len(catalog)
                     THEN /\ untranscribed_videos' = collected
                          /\ pc' = "handler"
                          /\ UNCHANGED exclusive_start_key
                     ELSE /\ exclusive_start_key' = last
                          /\ UNCHANGED <<untranscribed_videos, pc>>
        /\ UNCHANGED scan_failed
  /\ UNCHANGED <<configVars, pipeVars, etagVars, apiVars, catalog, ingested, procVars, loopVars, streamVars, sessionVars, callVars,
                 storeVars, result, upload_error>>

\* lines 71-77: the response for an empty backlog
ZeroItemResponse ==
  [statusCode |-> 200, message |-> "No untranscribed videos to download",
   processed_count |-> 0]

\* a handler without the early return for an empty backlog
HandlerStart_noreturn ==
  /\ pc = "handler"
  /\ pc' = IF untranscribed_videos = <<>> THEN "aggregate" ELSE "item"
  /\ UNCHANGED <<envVars, procVars, loopVars, streamVars, sessionVars, callVars,
                 storeVars, result, upload_error>>

\* lambda_handler up to the loop: an empty backlog returns the zero-item response
HandlerStart ==
  /\ pc = "handler"
  /\ IF untranscribed_videos = <<>>
       THEN /\ response' = ZeroItemResponse
            /\ pc' = "returned"
       ELSE /\ pc' = "item"
            /\ UNCHANGED response
  /\ UNCHANGED <<envVars, procVars, index, download_results, sleep_count, started,
                 streamVars, sessionVars, callVars, storeVars, result, upload_error>>

\* the block of each_with_index is entered for the video at index
StartItem ==
  /\ pc = "item"
  /\ FreshLocals
  /\ started' = started + 1
  /\ pc' = "locate"
  /\ UNCHANGED <<envVars, index, download_results, response, sleep_count, storeVars>>

\* find_yt_dlp_executable raises while it builds possible_paths:
\* File.join(ENV['HOME'] || ENV['USERPROFILE'], '.local', 'bin', 'yt-dlp')
\* is File.join(nil, ...) when neither variable is set (TypeError)
FindYtDlpRaises == ~home_set

\* lines 215 / 292: the message of the result when find_yt_dlp_executable gave nil
YtDlpNotFound == <<"yt-dlp not found. Please install with: pip install yt-dlp">>

\* line 287 / 210: yt_dlp_path = find_yt_dlp_executable, outside every
\* begin/rescue of the per-item method
Locate ==
  /\ pc = "locate"
  /\ IF FindYtDlpRaises
       THEN /\ HandlerRescue("no implicit conversion of nil into String")
            /\ UNCHANGED <<result, yt_dlp_path, version_calls>>
       ELSE /\ version_calls' = version_calls + 1
            /\ \E found \in BOOLEAN :
                 IF found
                   THEN /\ yt_dlp_path' = "path"
                        /\ pc' = IF direct_s3_upload THEN "probe" ELSE "local_run"
                        /\ UNCHANGED <<result, response>>
                   ELSE /\ yt_dlp_path' = "nil"
                        /\ Return(FailureResult(Video, YtDlpNotFound))
                        /\ UNCHANGED response
  /\ UNCHANGED <<envVars, probe_calls, probe_status, spawn_calls, capture_calls, index, download_results, sleep_count, started,
                 streamVars, sessionVars, callVars, storeVars, upload_error>>

\* a rescue that runs the begin block of lines 299-487 again (retry)
OuterRescue_retry(e) ==
  /\ pc' = "probe"
  /\ UNCHANGED result

\* rescue => e of download_video_to_s3 (lines 489-496)
OuterRescue(e) == Return(FailureResult(Video, ExceptionMessage(e)))

\* an exception inside the inner begin (lines 365-471) reaches rescue => upload_error
Raise(e) ==
  /\ upload_error' = e
  /\ pc' = "rescue"

\* a probe whose exit status is not looked at
ProbeSucceeded_always(status) == TRUE

\* line 313: status.success? of the probe
ProbeSucceeded(status) == status = "ok"

\* lines 301-323: the filename probe
Probe ==
  /\ pc = "probe"
  /\ probe_calls' = probe_calls + 1
  /\ \E outcome \in {"raise", "fail", "ok"} :
       /\ probe_status' = outcome
       /\ IF outcome = "raise"
            THEN OuterRescue("capture3") /\ UNCHANGED file_extension
            ELSE IF ProbeSucceeded(outcome)
                   THEN /\ \E ext \in probe_exts : file_extension' = ext
                        /\ pc' = "spawn"
                        /\ UNCHANGED result
                   ELSE /\ Return(FailureResult(Video, <<"Failed to get file info">>))
                        /\ UNCHANGED file_extension
  /\ UNCHANGED <<envVars, yt_dlp_path, version_calls, spawn_calls, capture_calls, loopVars, stdout_pos, stdout_eof, exit_success,
                 sessionVars, callVars, storeVars, upload_error>>

\* lines 339-349: Open3.popen3 starts the streaming subprocess and the stderr thread
Spawn ==
  /\ pc = "spawn"
  /\ spawn_calls' = spawn_calls + 1
  /\ \/ OuterRescue("popen3")
     \/ /\ pc' = "create"
        /\ UNCHANGED result
  /\ UNCHANGED <<envVars, yt_dlp_path, version_calls, probe_calls, probe_status, capture_calls, loopVars, streamVars, sessionVars, callVars, storeVars,
                 upload_error>>

\* String#downcase on the extensions that occur
Downcase(ext) == IF ext = ".M4A" THEN ".m4a" ELSE ext

\* a mapping that only knows .mp4 as audio/mp4
get_content_type_mp4only(file_extension_arg) ==
  LET e == Downcase(file_extension_arg)
  IN CASE e = ".mp4" -> "audio/mp4"
       [] e = ".mp3" -> "audio/mpeg"
       [] e = ".webm" -> "audio/webm"
       [] e = ".ogg" -> "audio/ogg"
       [] OTHER -> "audio/mpeg"

\* lines 499-512
get_content_type(file_extension_arg) ==
  LET e == Downcase(file_extension_arg)
  IN CASE e \in {".mp4", ".m4a"} -> "audio/mp4"
       [] e = ".mp3" -> "audio/mpeg"
       [] e = ".webm" -> "audio/webm"
       [] e = ".ogg" -> "audio/ogg"
       [] OTHER -> "audio/mpeg"

\* lines 352-363: create_multipart_upload; the storage hands out a fresh upload_id
Create ==
  /\ pc = "create"
  /\ create_calls' = create_calls + 1
  /\ \/ /\ OuterRescue("create_multipart_upload")
        /\ UNCHANGED <<upload_id, parts, part_number, storeVars>>
     \/ /\ upload_id' = next_upload_id
        /\ next_upload_id' = next_upload_id + 1
        /\ uploads' = Append(uploads,
                        [owner |-> index, key |-> S3Key(Video, file_extension),
                         content_type |-> get_content_type(file_extension),
                         state |-> "open"])
        /\ parts' = <<>>
        /\ part_number' = 1
        /\ pc' = "read"
        /\ UNCHANGED result
  /\ UNCHANGED <<envVars, procVars, loopVars, streamVars, chunk, chunks_read, uploaded,
                 complete_arg, abort_calls, complete_calls, put_calls, put_stored, upload_error>>

Min(a, b) == IF a < b THEN a ELSE b

\* a reader that hands back whatever is available (readpartial)
EofAfter_readpartial(len) == FALSE

\* line 369: IO#read(chunk_size) gives fewer than chunk_size bytes only when the
\* end of file follows
EofAfter(len) == len < ChunkSize

\* line 369: chunk = stdout.read(chunk_size) blocks until chunk_size bytes or end
\* of file: nil at end of file, a short chunk only when end of file follows it
Read ==
  /\ pc = "read"
  /\ \/ /\ Raise("read")
        /\ UNCHANGED <<stdout_pos, stdout_eof, chunk, chunks_read>>
     \/ /\ stdout_eof' = TRUE
        /\ pc' = "join"
        /\ UNCHANGED <<stdout_pos, chunk, chunks_read, upload_error>>
     \/ /\ ~stdout_eof
        /\ \E len \in 1..Min(ChunkSize, stdout_limit - stdout_pos) :
             /\ chunk' = [off |-> stdout_pos, len |-> len]
             /\ stdout_pos' = stdout_pos + len
             /\ stdout_eof' = EofAfter(len)
             /\ chunks_read' = Append(chunks_read, chunk')
        /\ pc' = "upload"
        /\ UNCHANGED upload_error
  /\ UNCHANGED <<envVars, procVars, loopVars, file_extension, exit_success,
                 upload_id, parts, part_number, callVars, storeVars, result>>

\* a normalisation that wraps whatever it is given
NormalizeEtag_always(e) == <<Quote>> \o e \o <<Quote>>

\* line 389: etag_value = "\"#{etag_value}\"" unless etag_value.start_with?('"')
NormalizeEtag(e) ==
  IF Len(e) > 0 /\ e[1] = Quote THEN e ELSE <<Quote>> \o e \o <<Quote>>

\* a part counter that is advanced twice per uploaded part
NextPartNumber_skip(n) == n + 2

\* line 396: part_number += 1
NextPartNumber(n) == n + 1

\* lines 376-397: upload_part for the chunk just read, then record the part
UploadPart ==
  /\ pc = "upload"
  /\ \/ /\ Raise("upload_part")
        /\ UNCHANGED <<parts, part_number, uploaded>>
     \/ /\ uploaded' = Append(uploaded, [part_number |-> part_number, body |-> chunk])
        /\ \E raw \in RawEtags :
             parts' = Append(parts, [etag |-> NormalizeEtag(raw),
                                     part_number |-> part_number])
        /\ part_number' = NextPartNumber(part_number)
        /\ pc' = "read"
        /\ UNCHANGED upload_error
  /\ UNCHANGED <<envVars, procVars, loopVars, streamVars, upload_id, chunk, chunks_read,
                 complete_arg, create_calls, abort_calls, complete_calls, put_calls, put_stored,
                 storeVars, result>>

\* lines 403-406: stderr_thread.join, then wait_thr.value gives the exit status
Join ==
  /\ pc = "join"
  /\ \/ /\ Raise("join")
        /\ UNCHANGED exit_success
     \/ /\ exit_success' \in BOOLEAN
        /\ pc' = "check"
        /\ UNCHANGED upload_error
  /\ UNCHANGED <<envVars, procVars, loopVars, file_extension, stdout_pos, stdout_eof,
                 sessionVars, callVars, storeVars, result>>

\* the storage's abort: an open upload is discarded when the call succeeds
Aborted(ok) ==
  IF ok /\ uploads[upload_id].state = "open"
    THEN [uploads EXCEPT ![upload_id].state = "aborted"]
    ELSE uploads

\* the emptiness test left out
PartsEmpty_never(ps) == FALSE

\* line 415: parts.empty?
PartsEmpty(ps) == ps = <<>>

\* an empty part list reported without aborting the upload
CheckParts_noabort ==
  /\ pc = "check"
  /\ IF PartsEmpty(parts)
       THEN Return(FailureResult(Video, <<"No data received from yt-dlp">>))
       ELSE pc' = "complete" /\ UNCHANGED result
  /\ UNCHANGED <<envVars, procVars, loopVars, streamVars, sessionVars, callVars, storeVars,
                 upload_error>>

\* lines 415-428: an empty part list aborts the upload and reports no data
CheckParts ==
  /\ pc = "check"
  /\ IF PartsEmpty(parts)
       THEN /\ abort_calls' = abort_calls + 1
            /\ \E ok \in BOOLEAN :
                 /\ uploads' = Aborted(ok)
                 /\ IF ok
                      THEN /\ Return(FailureResult(Video, <<"No data received from yt-dlp">>))
                           /\ UNCHANGED upload_error
                      ELSE /\ Raise("abort_multipart_upload")
                           /\ UNCHANGED result
       ELSE /\ pc' = "complete"
            /\ UNCHANGED <<abort_calls, uploads, result, upload_error>>
  /\ UNCHANGED <<envVars, procVars, loopVars, streamVars, sessionVars, uploaded, complete_arg,
                 create_calls, complete_calls, put_calls, put_stored, next_upload_id>>

\* lines 434-441: complete_multipart_upload with the part list
Complete ==
  /\ pc = "complete"
  /\ complete_calls' = complete_calls + 1
  /\ complete_arg' = parts
  /\ \/ /\ Raise("complete_multipart_upload")
        /\ UNCHANGED uploads
     \/ /\ uploads' = [uploads EXCEPT ![upload_id].state = "completed"]
        /\ pc' = "exit_check"
        /\ UNCHANGED upload_error
  /\ UNCHANGED <<envVars, procVars, loopVars, streamVars, sessionVars, uploaded, create_calls,
                 abort_calls, put_calls, put_stored, next_upload_id, result>>

\* lines 443-470: the exit status is looked at after the upload was completed
ExitCheck ==
  /\ pc = "exit_check"
  /\ IF exit_success /\ ~PartsEmpty(parts)
       THEN /\ Return(StreamSuccessResult(Video, S3Key(Video, file_extension), Len(parts)))
            /\ UNCHANGED <<abort_calls, uploads, upload_error>>
       ELSE /\ abort_calls' = abort_calls + 1
            /\ \E ok \in BOOLEAN :
                 /\ uploads' = Aborted(ok)
                 /\ IF ok
                      THEN /\ Return(FailureResult(Video, <<"Stream upload failed: ", "">>))
                           /\ UNCHANGED upload_error
                      ELSE /\ Raise("abort_multipart_upload")
                           /\ UNCHANGED result
  /\ UNCHANGED <<envVars, procVars, loopVars, streamVars, sessionVars, uploaded, complete_arg,
                 create_calls, complete_calls, put_calls, put_stored, next_upload_id>>

\* a rescue that re-raises without aborting the upload
RescueUpload_noabort ==
  /\ pc = "rescue"
  /\ OuterRescue(upload_error)
  /\ UNCHANGED <<envVars, procVars, loopVars, streamVars, sessionVars, callVars, storeVars,
                 upload_error>>

\* lines 472-486: abort (its own failure is only logged), then raise upload_error,
\* which the rescue of lines 489-496 turns into the item's result
RescueUpload ==
  /\ pc = "rescue"
  /\ abort_calls' = abort_calls + 1
  /\ \E ok \in BOOLEAN : uploads' = Aborted(ok)
  /\ OuterRescue(upload_error)
  /\ UNCHANGED <<envVars, procVars, loopVars, streamVars, sessionVars, uploaded, complete_arg,
                 create_calls, complete_calls, put_calls, put_stored, next_upload_id, upload_error>>

\* lines 232-278 of download_video: Open3.capture3 runs the extractor to a file
LocalRun ==
  /\ pc = "local_run"
  /\ capture_calls' = capture_calls + 1
  /\ \E outcome \in {"raise", "fail", "ok"} :
       CASE outcome = "raise" -> OuterRescue("capture3")
         [] outcome = "fail" -> Return(FailureResult(Video, <<"Download failed: ", "stderr">>))
         [] outcome = "ok" -> pc' = "local_find" /\ UNCHANGED result
  /\ UNCHANGED <<envVars, yt_dlp_path, version_calls, probe_calls, probe_status, spawn_calls, loopVars, streamVars, sessionVars, callVars, storeVars, upload_error>>

\* an upload that is made whatever the environment says
UploadWanted_always == TRUE

\* line 245: if ENV['UPLOAD_TO_S3'] == 'true'
UploadWanted == upload_to_s3_env

\* lines 238-261: find_downloaded_file, then the optional upload
LocalFind ==
  /\ pc = "local_find"
  /\ \E found \in BOOLEAN :
       IF found
         THEN IF UploadWanted
                THEN pc' = "local_upload" /\ UNCHANGED result
                ELSE Return(LocalSuccessResult(Video))
         ELSE Return(FailureResult(Video, <<"Download completed but file not found">>))
  /\ UNCHANGED <<envVars, procVars, loopVars, streamVars, sessionVars, callVars, storeVars, upload_error>>

\* an upload_to_s3 without its rescue: the exception of put_object reaches the
\* rescue of download_video
AfterPut_propagates(stored) ==
  IF stored THEN Return(LocalSuccessResult(Video)) ELSE OuterRescue("put_object")

\* lines 548-550 and 249-254: rescue => e only prints, and download_video goes
\* on to its success hash
AfterPut(stored) == Return(LocalSuccessResult(Video))

\* upload_to_s3 (lines 529-551): put_object stores the file or raises
LocalUpload ==
  /\ pc = "local_upload"
  /\ put_calls' = put_calls + 1
  /\ \E stored \in BOOLEAN :
       /\ put_stored' = stored
       /\ AfterPut(stored)
  /\ UNCHANGED <<envVars, procVars, loopVars, streamVars, sessionVars, uploaded, complete_arg,
                 create_calls, abort_calls, complete_calls, storeVars, upload_error>>

\* a loop that also marks the video of a successful result as transcribed
AppendResult_marks ==
  /\ pc = "append"
  /\ download_results' = Append(download_results, result)
  /\ catalog' = [i \in DOMAIN catalog |->
                   IF catalog[i].video_id = Video /\ result.success
                     THEN [catalog[i] EXCEPT !.transcribed = NumberOne]
                     ELSE catalog[i]]
  /\ FreshLocals
  /\ pc' = IF index < Len(untranscribed_videos) - 1 THEN "sleep" ELSE "aggregate"
  /\ UNCHANGED <<configVars, pipeVars, etagVars, apiVars, untranscribed_videos, exclusive_start_key, videos,
                 scan_failed, ingested, index, response, sleep_count, started,
                 storeVars>>

\* line 94: download_results << result, the method's locals are gone;
\* line 97: sleep(1) unless it was the last item
AppendResult ==
  /\ pc = "append"
  /\ download_results' = Append(download_results, result)
  /\ FreshLocals
  /\ pc' = IF index < Len(untranscribed_videos) - 1 THEN "sleep" ELSE "aggregate"
  /\ UNCHANGED <<envVars, index, response, sleep_count, started, storeVars>>

\* line 97: sleep(1), then each_with_index moves to the next video
Sleep ==
  /\ pc = "sleep"
  /\ sleep_count' = sleep_count + 1
  /\ index' = index + 1
  /\ pc' = "item"
  /\ UNCHANGED <<envVars, procVars, download_results, response, started, streamVars,
                 sessionVars, callVars, storeVars, result, upload_error>>

\* lines 100-112: the aggregate response
Aggregate ==
  /\ pc = "aggregate"
  /\ response' = [statusCode |-> 200,
                  message |-> "YouTube download completed",
                  total_videos |-> Len(untranscribed_videos),
                  successful_downloads |-> CountSuccess(download_results),
                  results |-> download_results]
  /\ pc' = "returned"
  /\ UNCHANGED <<envVars, procVars, index, download_results, sleep_count, started, streamVars,
                 sessionVars, callVars, storeVars, result, upload_error>>

Next ==
  \/ Scan
  \/ HandlerStart
  \/ StartItem
  \/ Locate
  \/ Probe
  \/ Spawn
  \/ Create
  \/ Read
  \/ UploadPart
  \/ Join
  \/ CheckParts
  \/ Complete
  \/ ExitCheck
  \/ RescueUpload
  \/ LocalRun
  \/ LocalFind
  \/ LocalUpload
  \/ AppendResult
  \/ Sleep
  \/ Aggregate

Spec == Init /\ [][Next]_vars

\* the item the ingest job builds for a listed video (lines 157-168)
ListedItem(id, views) ==
  [video_id |-> id, transcribed |-> BoolFalse, title |-> "new", views |-> views,
   created_at |-> 1, updated_at |-> 1]

\* an ingest that puts the built item whether or not the video_id exists
IngestExisting_put(old, new) == new

\* lines 176-192: update_item SET views, created_at, updated_at
IngestExisting(old, new) ==
  [old EXCEPT !.views = new.views, !.created_at = new.created_at,
              !.updated_at = new.updated_at]

\* the ingest job (youtube_ingest handler, lines 157-200) for one listed video:
\* an absent video_id is put with 'transcribed' => false, an existing item only
\* gets views, created_at and updated_at set
Ingest ==
  /\ pc = "fetch"
  /\ exclusive_start_key = 0
  /\ videos = <<>>
  /\ \E i \in DOMAIN VideoIds, views \in {0, 1} :
       LET item == ListedItem(VideoIds[i], views)
       IN IF \E k \in DOMAIN catalog : catalog[k].video_id = VideoIds[i]
            THEN /\ catalog' = [k \in DOMAIN catalog |->
                                  IF catalog[k].video_id = VideoIds[i]
                                    THEN IngestExisting(catalog[k], item)
                                    ELSE catalog[k]]
                 /\ UNCHANGED ingested
            ELSE /\ catalog' = Append(catalog, item)
                 /\ ingested' = ingested \cup {VideoIds[i]}
  /\ UNCHANGED <<configVars, pipeVars, etagVars, apiVars, untranscribed_videos, exclusive_start_key, videos,
                 scan_failed, procVars, loopVars, streamVars, sessionVars, callVars,
                 storeVars, pc, result, upload_error>>

\* the ingest job runs, then the download handler reads the backlog
NextCatalog ==
  \/ Ingest
  \/ Scan
  \/ HandlerStart

SpecCatalog == Init /\ [][NextCatalog]_vars

\* UpdateTranscribed.rb line 20: item['transcribed'] == true ? 1 : 0
TranscribedNum(t) == IF t = BoolTrue THEN NumberOne ELSE NumberZero

\* UpdateTranscribed.rb lines 16-33 on a table that fits in one page of its scan:
\* every item gets SET transcribed = transcribed_num
UpdateTranscribed ==
  /\ pc = "fetch"
  /\ exclusive_start_key = 0
  /\ videos = <<>>
  /\ update_runs < MaxRuns
  /\ update_runs' = update_runs + 1
  /\ catalog' = [k \in DOMAIN catalog |->
                   [catalog[k] EXCEPT !.transcribed = TranscribedNum(catalog[k].transcribed)]]
  /\ UNCHANGED <<configVars, pipeVars, apiVars, raw_etag, etag_value, etag_again, etag_pc,
                 untranscribed_videos, exclusive_start_key, videos, scan_failed, ingested,
                 procVars, loopVars, streamVars, sessionVars, callVars, storeVars, pc,
                 result, upload_error>>

\* the maintenance script runs, then the download handler reads the backlog
NextMaintenance ==
  \/ UpdateTranscribed
  \/ Scan
  \/ HandlerStart

SpecMaintenance == Init /\ [][NextMaintenance]_vars

\* ---- the two pipes of Open3.popen3 (lines 339-407) ----

nonPipeVars == <<configVars, untranscribed_videos, catalogVars, etagVars, apiVars, procVars, loopVars,
                 streamVars, sessionVars, callVars, storeVars, pc, result, upload_error>>

\* the subprocess makes its next write; it blocks while that pipe is full and
\* dies of the broken pipe once the parent closed its ends
ChildWrite ==
  /\ ~child_exited
  /\ child_pos < Len(child_script)
  /\ IF pipes_closed
       THEN /\ child_exited' = TRUE
            /\ UNCHANGED <<child_pos, out_pipe, err_pipe>>
       ELSE /\ \/ /\ child_script[child_pos + 1] = "out"
                  /\ out_pipe < PipeCap
                  /\ out_pipe' = out_pipe + 1
                  /\ UNCHANGED err_pipe
               \/ /\ child_script[child_pos + 1] = "err"
                  /\ err_pipe < PipeCap
                  /\ err_pipe' = err_pipe + 1
                  /\ UNCHANGED out_pipe
            /\ child_pos' = child_pos + 1
            /\ UNCHANGED child_exited
  /\ UNCHANGED <<child_script, pipes_closed, read_buf, pipe_pc, err_thread, pipe_eof,
                 pipe_joined, pipe_raised, error_output_len, nonPipeVars>>

\* the subprocess has written everything and exits
ChildExit ==
  /\ ~child_exited
  /\ child_pos = Len(child_script)
  /\ child_exited' = TRUE
  /\ UNCHANGED <<child_script, child_pos, out_pipe, err_pipe, pipes_closed, read_buf,
                 pipe_pc, err_thread, pipe_eof, pipe_joined, pipe_raised, error_output_len, nonPipeVars>>

\* a block that starts no reader of stderr
ErrThreadStarts_never(p) == FALSE

\* lines 343-349: Thread.new comes before create_multipart_upload and the loop
ErrThreadStarts(p) == p = "thread_new"

\* lines 343-349: stderr_thread = Thread.new
PipeThreadNew ==
  /\ pipe_pc = "thread_new"
  /\ pipe_pc' = "create"
  /\ err_thread' = IF ErrThreadStarts(pipe_pc) THEN "running" ELSE err_thread
  /\ UNCHANGED <<child_script, child_pos, child_exited, out_pipe, err_pipe, pipes_closed,
                 read_buf, pipe_eof, pipe_joined, pipe_raised, error_output_len, nonPipeVars>>

\* line 346: error_output << line, for every line and without a limit
Retained(n, lines) == n + lines

\* lines 345-348: stderr.each_line takes what is in the pipe, one line a byte
ErrDrain ==
  /\ err_thread = "running"
  /\ ~pipes_closed
  /\ err_pipe > 0
  /\ err_pipe' = 0
  /\ error_output_len' = Retained(error_output_len, err_pipe)
  /\ UNCHANGED <<child_script, child_pos, child_exited, out_pipe, pipes_closed, read_buf,
                 pipe_pc, err_thread, pipe_eof, pipe_joined, pipe_raised, nonPipeVars>>

\* each_line ends at end of file, or with IOError once stderr is closed under it
ErrFinish ==
  /\ err_thread = "running"
  /\ pipes_closed \/ (err_pipe = 0 /\ child_exited)
  /\ err_thread' = "finished"
  /\ UNCHANGED <<child_script, child_pos, child_exited, out_pipe, err_pipe, pipes_closed,
                 read_buf, pipe_pc, pipe_eof, pipe_joined, pipe_raised, error_output_len, nonPipeVars>>

\* lines 352-356: create_multipart_upload returns or raises out of the block
PipeCreate ==
  /\ pipe_pc = "create"
  /\ \/ pipe_pc' = "read" /\ UNCHANGED pipe_raised
     \/ pipe_pc' = "ensure" /\ pipe_raised' = TRUE
  /\ UNCHANGED <<child_script, child_pos, child_exited, out_pipe, err_pipe, pipes_closed,
                 read_buf, err_thread, pipe_eof, pipe_joined, error_output_len, nonPipeVars>>

\* line 369: stdout.read(chunk_size) gathers bytes until it has chunk_size of them
PipeReadBytes ==
  /\ pipe_pc = "read"
  /\ out_pipe > 0
  /\ read_buf' = read_buf + Min(out_pipe, ChunkSize - read_buf)
  /\ out_pipe' = out_pipe - Min(out_pipe, ChunkSize - read_buf)
  /\ pipe_pc' = IF read_buf' = ChunkSize THEN "upload" ELSE "read"
  /\ UNCHANGED <<child_script, child_pos, child_exited, err_pipe, pipes_closed, err_thread,
                 pipe_eof, pipe_joined, pipe_raised, error_output_len, nonPipeVars>>

\* line 369: at end of file read gives the bytes it has, or nil if it has none
PipeReadEof ==
  /\ pipe_pc = "read"
  /\ out_pipe = 0
  /\ child_exited
  /\ IF read_buf > 0
       THEN pipe_pc' = "upload" /\ UNCHANGED pipe_eof
       ELSE pipe_pc' = "join" /\ pipe_eof' = TRUE
  /\ UNCHANGED <<child_script, child_pos, child_exited, out_pipe, err_pipe, pipes_closed,
                 read_buf, err_thread, pipe_joined, pipe_raised, error_output_len, nonPipeVars>>

\* lines 376-396: upload_part returns or raises; the rescue of lines 472-486
\* returns from inside the block
PipeUpload ==
  /\ pipe_pc = "upload"
  /\ read_buf' = 0
  /\ \/ pipe_pc' = "read" /\ UNCHANGED pipe_raised
     \/ pipe_pc' = "ensure" /\ pipe_raised' = TRUE
  /\ UNCHANGED <<child_script, child_pos, child_exited, out_pipe, err_pipe, pipes_closed,
                 err_thread, pipe_eof, pipe_joined, error_output_len, nonPipeVars>>

\* line 403: stderr_thread.join
PipeJoin ==
  /\ pipe_pc = "join"
  /\ err_thread = "finished"
  /\ pipe_joined' = TRUE
  /\ pipe_pc' = "wait"
  /\ UNCHANGED <<child_script, child_pos, child_exited, out_pipe, err_pipe, pipes_closed,
                 read_buf, err_thread, pipe_eof, pipe_raised, error_output_len, nonPipeVars>>

\* line 406: wait_thr.value, after which the item goes on to its result
PipeWait ==
  /\ pipe_pc = "wait"
  /\ child_exited
  /\ pipe_pc' = "done"
  /\ UNCHANGED <<child_script, child_pos, child_exited, out_pipe, err_pipe, pipes_closed,
                 read_buf, err_thread, pipe_eof, pipe_joined, pipe_raised, error_output_len, nonPipeVars>>

\* the ensure of Open3.popen3: close the pipe ends, then wait for the subprocess
PipeEnsureClose ==
  /\ pipe_pc = "ensure"
  /\ pipes_closed' = TRUE
  /\ pipe_pc' = "ensure_wait"
  /\ UNCHANGED <<child_script, child_pos, child_exited, out_pipe, err_pipe, read_buf,
                 err_thread, pipe_eof, pipe_joined, pipe_raised, error_output_len, nonPipeVars>>

PipeEnsureWait ==
  /\ pipe_pc = "ensure_wait"
  /\ child_exited
  /\ pipe_pc' = "done"
  /\ UNCHANGED <<child_script, child_pos, child_exited, out_pipe, err_pipe, pipes_closed,
                 read_buf, err_thread, pipe_eof, pipe_joined, pipe_raised, error_output_len, nonPipeVars>>

NextPipes ==
  \/ ChildWrite
  \/ ChildExit
  \/ PipeThreadNew
  \/ ErrDrain
  \/ ErrFinish
  \/ PipeCreate
  \/ PipeReadBytes
  \/ PipeReadEof
  \/ PipeUpload
  \/ PipeJoin
  \/ PipeWait
  \/ PipeEnsureClose
  \/ PipeEnsureWait

\* the subprocess, the main thread and the stderr thread are each scheduled
\* again and again, and a storage call that is made returns
SpecPipes ==
  /\ InitPipes
  /\ [][NextPipes]_vars
  /\ WF_vars(ChildWrite)
  /\ WF_vars(ChildExit)
  /\ WF_vars(PipeThreadNew)
  /\ WF_vars(ErrDrain)
  /\ WF_vars(ErrFinish)
  /\ WF_vars(PipeCreate)
  /\ WF_vars(PipeReadBytes)
  /\ WF_vars(PipeReadEof)
  /\ WF_vars(PipeUpload)
  /\ WF_vars(PipeJoin)
  /\ WF_vars(PipeWait)
  /\ WF_vars(PipeEnsureClose)
  /\ WF_vars(PipeEnsureWait)

\* ---- the etag of one part (lines 384-394) ----

nonEtagVars == <<configVars, untranscribed_videos, catalogVars, pipeVars, apiVars, procVars, loopVars,
                 streamVars, sessionVars, callVars, storeVars, pc, result, upload_error>>

\* lines 385-394: etag_value = part_response.etag, normalised, goes into parts
EtagStore ==
  /\ etag_pc = "raw"
  /\ etag_value' = NormalizeEtag(raw_etag)
  /\ etag_pc' = "stored"
  /\ UNCHANGED <<raw_etag, etag_again, update_runs, nonEtagVars>>

\* line 389 applied to a value it produced
EtagAgain ==
  /\ etag_pc = "stored"
  /\ etag_again' = NormalizeEtag(etag_value)
  /\ etag_pc' = "again"
  /\ UNCHANGED <<raw_etag, etag_value, update_runs, nonEtagVars>>

NextEtag ==
  \/ EtagStore
  \/ EtagAgain

SpecEtag == InitEtag /\ [][NextEtag]_vars

\* ---- GET /api/videos (route.ts, dynamoClient.ts getVideos) ----

nonApiVars == <<configVars, untranscribed_videos, catalogVars, pipeVars, etagVars, procVars,
                loopVars, streamVars, sessionVars, callVars, storeVars, pc, result,
                upload_error>>

\* String#toLowerCase on the parameter values that occur
ToLowerCase(str) == IF str = "TRUE" THEN "true" ELSE str

Undefined == <<"undefined">>

\* route.ts lines 12 and 23-26: '' and null become undefined, any other string
\* becomes the boolean (lower-cased value === 'true')
ParseTranscribed(param) ==
  IF param = NoParam \/ param = ""
    THEN Undefined
    ELSE <<"boolean", IF ToLowerCase(param) = "true" THEN "true" ELSE "false">>

\* JavaScript's typeof
TypeOf(v) == v[1]

\* dynamoClient.ts lines 133 and 150: typeof transcribedFilter === 'number'
FilterGiven(tf) == TypeOf(tf) = "number"

\* the attribute value lib-dynamodb sends for a JavaScript value
Marshall(v) ==
  IF TypeOf(v) = "boolean" THEN <<"BOOL", v[2]>> ELSE <<"N", v[2]>>

\* FilterExpression '#t = :tf' when a filter is given, no filter otherwise
ApiFilter(item, tf) == FilterGiven(tf) => item.transcribed = Marshall(tf)

\* the items among positions from..to of the table that pass the filter
ApiPage(cat, from, to, tf) ==
  SelectSeq(SubSeq(cat, from, to), LAMBDA it : ApiFilter(it, tf))

RECURSIVE ScanLoop(_, _, _, _, _)
\* lines 156-167: pages of Limit = limit - items.length until the table ends
ScanLoop(cat, lastKey, items, limit, tf) ==
  IF Len(items) >= limit
    THEN items
    ELSE LET pageLimit == Min(limit, limit - Len(items))
             to == Min(Len(cat), lastKey + pageLimit)
             got == items \o ApiPage(cat, lastKey + 1, to, tf)
         IN IF to = Len(cat) THEN got ELSE ScanLoop(cat, to, got, limit, tf)

\* lines 170-173: getTs
GetTs(v) == IF v.created_at # 0 THEN v.created_at ELSE v.updated_at

RECURSIVE SortDesc(_)
\* line 175: items.sort((a, b) => getTs(b) - getTs(a)), a stable sort
SortDesc(items) ==
  IF Len(items) <= 1
    THEN items
    ELSE LET rest == SortDesc(Tail(items))
             h == Head(items)
             before == SelectSeq(rest, LAMBDA it : GetTs(it) > GetTs(h))
             after == SelectSeq(rest, LAMBDA it : GetTs(it) <= GetTs(h))
         IN before \o <<h>> \o after

\* line 176: items.slice(0, limit)
Slice(items, limit) == SubSeq(items, 1, Min(limit, Len(items)))

\* route.ts lines 9-33: the parameters are parsed and getVideos is entered;
\* lines 115-119: the index is used when it is configured
ApiRequest ==
  /\ api_pc = "request"
  /\ api_pc' \in {"index", "scan"}
  /\ UNCHANGED <<api_param, api_limit, api_videos, nonApiVars>>

\* lines 120-146: one Query of Limit items on the created-at index, or an error
\* that falls through to the scan
ApiIndexQuery ==
  /\ api_pc = "index"
  /\ \/ /\ api_videos' = ApiPage(SortDesc(catalog), 1, Min(api_limit, Len(catalog)),
                                 ParseTranscribed(api_param))
        /\ api_pc' = "responded"
     \/ /\ api_pc' = "scan"
        /\ UNCHANGED api_videos
  /\ UNCHANGED <<api_param, api_limit, nonApiVars>>

\* lines 149-177: the scan fallback, sorted and sliced
ApiScan ==
  /\ api_pc = "scan"
  /\ api_videos' = Slice(SortDesc(ScanLoop(catalog, 0, <<>>, api_limit,
                                           ParseTranscribed(api_param))), api_limit)
  /\ api_pc' = "responded"
  /\ UNCHANGED <<api_param, api_limit, nonApiVars>>

NextVideos ==
  \/ ApiRequest
  \/ ApiIndexQuery
  \/ ApiScan

SpecVideos == InitVideos /\ [][NextVideos]_vars

\* the streaming path of download_video_to_s3 for a single video
NextStream ==
  \/ Scan
  \/ HandlerStart
  \/ StartItem
  \/ Locate
  \/ Probe
  \/ Spawn
  \/ Create
  \/ Read
  \/ UploadPart
  \/ Join
  \/ CheckParts
  \/ Complete
  \/ ExitCheck
  \/ RescueUpload
  \/ AppendResult
  \/ Aggregate

SpecStream == InitStream /\ [][NextStream]_vars

TypeOK ==
  /\ pc \in {"fetch", "handler", "item", "locate", "probe", "spawn", "create", "read",
             "upload", "join", "check", "complete", "exit_check", "rescue",
             "local_run", "local_find", "local_upload", "append", "sleep",
             "aggregate", "returned"}
  /\ index \in 0..MaxItems
  /\ upload_id \in 0..MaxItems
  /\ stdout_pos \in 0..stdout_limit

\* ------------------------------------------------------------ properties

\* the item's method has returned its result to the loop
Returned == pc = "append"

\* a multipart upload was initiated for the item the loop is at
Initiated == upload_id # 0

\* the storage committed the object of the current item's upload
Committed == Initiated /\ uploads[upload_id].state = "completed"

\* C1: complete_multipart_upload is called only if the extractor exited with
\* success and at least one part was uploaded; after a non-zero exit the upload
\* is never completed
C1_CompleteOnlyAfterSuccessfulExit ==
  /\ complete_calls > 0 => exit_success /\ Len(parts) > 0
  /\ Returned /\ Initiated /\ stdout_eof /\ ~exit_success => ~Committed

\* C2: the part list always holds part numbers 1..k in order, part i carries the
\* i-th non-empty chunk read from stdout, and complete receives exactly that list
C2_PartsContiguousInReadOrder ==
  /\ \A i \in 1..Len(parts) : parts[i].part_number = i
  /\ Len(uploaded) = Len(parts)
  /\ Len(chunks_read) \in {Len(parts), Len(parts) + 1}
  /\ \A i \in 1..Len(uploaded) :
       uploaded[i] = [part_number |-> i, body |-> chunks_read[i]]
  /\ complete_calls > 0 => complete_arg = parts

C2_Witness ==
  /\ complete_calls = 1
  /\ Len(complete_arg) = 2
  /\ uploaded[2].body.off = ChunkSize

\* C3: an exception raised after the upload was initiated (read, upload_part,
\* join, complete) leads to an abort call before the result is returned, and the
\* result has success = false
C3_ExceptionAbortsAndFails ==
  Returned /\ upload_error # "none" =>
    /\ Initiated
    /\ abort_calls >= 1
    /\ result.success = FALSE

C3_Witness ==
  /\ Returned
  /\ upload_error = "complete_multipart_upload"
  /\ abort_calls = 1
  /\ Len(parts) = 1

\* C4: the message of the item's result never carries the error of a failed
\* abort call in place of the original failure reason
C4_AbortErrorNeverReported ==
  Returned /\ direct_s3_upload =>
    result.message # ExceptionMessage("abort_multipart_upload")

\* C5: when no byte was read from stdout, abort is called before the result is
\* returned, complete is never called and the session commits no object
C5_EmptyStreamAborted ==
  Initiated /\ stdout_pos = 0 =>
    /\ complete_calls = 0
    /\ ~Committed
    /\ Returned => abort_calls >= 1

C5_Witness ==
  /\ Returned
  /\ Initiated
  /\ stdout_eof
  /\ stdout_pos = 0
  /\ abort_calls = 1
  /\ uploads[upload_id].state = "aborted"

\* C6: a subprocess that exits 0 without emitting a byte gives success = false
\* with the "No data received" message and exactly one abort call, whether or
\* not the abort call succeeds
C6_EmptySuccessfulStreamAbortsOnce ==
  Returned /\ Initiated /\ stdout_eof /\ stdout_pos = 0 /\ exit_success =>
    /\ result.success = FALSE
    /\ result.message = <<"No data received from yt-dlp">>
    /\ abort_calls = 1

\* C7: when a result is returned for an item whose upload was initiated, either
\* complete returned successfully or abort was invoked
C7_SessionNeverOutlivesItem ==
  Returned /\ Initiated => Committed \/ abort_calls >= 1

C7_Witness ==
  /\ Returned
  /\ Committed
  /\ abort_calls = 0
  /\ result.success

\* a storage call carrying the current upload_id is issued in this step
StorageCallStep ==
  \/ create_calls' > create_calls
  \/ Len(uploaded') > Len(uploaded)
  \/ complete_calls' > complete_calls
  \/ abort_calls' > abort_calls

\* the positions between entering an item and returning its result
InItem ==
  pc \in {"create", "upload", "check", "complete", "exit_check", "rescue"}

\* C8: an item initiates at most one upload, no two items own the same upload,
\* and an upload is only touched by storage calls made while its item is
\* being processed
C8_NoSharedUpload ==
  [][/\ create_calls' <= 1
     /\ \A u, v \in DOMAIN uploads' :
          u # v => uploads'[u].owner # uploads'[v].owner
     /\ Initiated' => uploads'[upload_id'].owner = index'
     /\ StorageCallStep => InItem /\ index' = index
     /\ \A u \in DOMAIN uploads :
          uploads'[u] # uploads[u] => uploads[u].owner = index /\ u = upload_id]_vars

C8_Witness ==
  /\ Returned
  /\ index = 1
  /\ Len(uploads) = 2
  /\ uploads[1].owner = 0
  /\ uploads[2].owner = 1
  /\ upload_id = 2

\* C9: whatever fails for an item, the handler appends one result per backlog
\* item, the failing entries have success = false, and it does not answer 500
C9_FailureNeverAbortsBatch ==
  pc = "returned" /\ untranscribed_videos # <<>> =>
    /\ response.statusCode # 500
    /\ Len(download_results) = Len(untranscribed_videos)
    /\ started = Len(untranscribed_videos)

\* the handler answered with the aggregate of lines 104-112
AggregateReturned == pc = "returned" /\ response.statusCode = 200 /\ untranscribed_videos # <<>>

FetchReturned == pc # "fetch"

\* no call of the item loop was made for the current item
NoItemCall ==
  /\ version_calls = 0 /\ probe_calls = 0 /\ spawn_calls = 0 /\ capture_calls = 0
  /\ create_calls = 0 /\ Len(uploaded) = 0 /\ complete_calls = 0
  /\ abort_calls = 0 /\ put_calls = 0

\* C11: with an empty backlog the handler answers 200 with processed_count 0,
\* whatever happened before, and runs no subprocess (--version probe included),
\* makes no storage call and does not pause
C11_EmptyBacklogIsIdle ==
  FetchReturned /\ untranscribed_videos = <<>> =>
    /\ pc \in {"handler", "returned"}
    /\ pc = "returned" => response = ZeroItemResponse
    /\ started = 0
    /\ sleep_count = 0
    /\ NoItemCall
    /\ uploads = <<>>

C11_Witness ==
  /\ pc = "returned"
  /\ untranscribed_videos = <<>>
  /\ ~scan_failed
  /\ Len(catalog) = 2
  /\ response.processed_count = 0

PendingIds(cat) ==
  LET pending == SelectSeq(cat, LAMBDA it : it.transcribed = NumberZero)
  IN [i \in 1..Len(pending) |-> pending[i].video_id]

\* the fetch returned without a catalog error
FetchDone == FetchReturned /\ ~scan_failed

C16_CatalogUnchanged == [][catalog' = catalog]_vars

C16_Witness ==
  /\ pc = "returned"
  /\ response.statusCode = 200
  /\ untranscribed_videos # <<>>
  /\ response.successful_downloads = 1
  /\ \E i \in DOMAIN catalog :
       /\ catalog[i].video_id = response.results[1].video_id
       /\ response.results[1].success
       /\ catalog[i].transcribed = NumberZero

\* C18: the backlog holds every item the ingest job inserted with
\* transcribed = false and no item marked transcribed
C18_BacklogIsPendingItems ==
  pc = "handler" /\ ~scan_failed =>
    /\ \A v \in ingested :
         \E i \in DOMAIN untranscribed_videos : untranscribed_videos[i] = v
    /\ \A k \in DOMAIN catalog :
         catalog[k].transcribed \in {NumberOne, BoolTrue} =>
           \A i \in DOMAIN untranscribed_videos :
             untranscribed_videos[i] # catalog[k].video_id

\* the read loop ended at end of file without an exception
LoopFinished ==
  /\ Initiated
  /\ stdout_eof
  /\ upload_error = "none"
  /\ pc \in {"join", "check", "complete", "exit_check", "append"}

\* ceil(n / c)
CeilDiv(n, c) == (n + c - 1) \div c

\* C14: a stream of N > 0 bytes is uploaded as ceil(N / C) parts in ascending
\* order, every part but the last of C bytes, the last of the remainder, the
\* parts laid end to end being the stream, and complete receives those parts
C14_ChunksCoverStream ==
  LoopFinished /\ stdout_pos > 0 =>
    LET k == CeilDiv(stdout_pos, ChunkSize)
    IN /\ Len(uploaded) = k
       /\ Len(parts) = k
       /\ \A i \in 1..k :
            /\ uploaded[i].part_number = i
            /\ parts[i].part_number = i
            /\ uploaded[i].body.off = ChunkSize * (i - 1)
            /\ uploaded[i].body.len =
                 IF i < k THEN ChunkSize ELSE stdout_pos - ChunkSize * (k - 1)
       /\ complete_calls > 0 => complete_arg = parts

C14_Witness ==
  /\ LoopFinished
  /\ complete_calls = 1
  /\ stdout_pos = 12
  /\ Len(complete_arg) = 3
  /\ uploaded[1].body.len = 5
  /\ uploaded[2].body.len = 5
  /\ uploaded[3].body.len = 2

\* the mapping of the claim; the extension is compared without regard to case
C15_Expected(ext) ==
  CASE ext \in {".mp4", ".m4a", ".M4A"} -> "audio/mp4"
    [] ext = ".mp3" -> "audio/mpeg"
    [] ext = ".webm" -> "audio/webm"
    [] ext = ".ogg" -> "audio/ogg"
    [] OTHER -> "audio/mpeg"

\* C15: get_content_type gives audio/mp4 for .mp4 and .m4a, audio/mpeg for
\* .mp3, audio/webm for .webm, audio/ogg for .ogg and the default audio/mpeg for
\* every other extension, the empty one included; the upload is created with
\* the mapping of the probed extension
C15_ContentTypeOfProbedExtension ==
  /\ file_extension \in probe_exts \cup {""}
  /\ Initiated =>
       uploads[upload_id].content_type = C15_Expected(file_extension)

C15_Witness ==
  /\ Initiated
  /\ file_extension = ".m4a"
  /\ uploads[upload_id].content_type = "audio/mp4"

\* none of the multipart calls was made for the current item
NoMultipartCall ==
  /\ create_calls = 0
  /\ Len(uploaded) = 0
  /\ complete_calls = 0
  /\ abort_calls = 0

\* C19: after a failed filename probe the item's result has success = false,
\* the streaming subprocess is not spawned and none of create, upload_part,
\* complete and abort is called for the item
C19_ProbeFailureStopsItem ==
  probe_status \in {"fail", "raise"} =>
    /\ Returned
    /\ result.success = FALSE
    /\ spawn_calls = 0
    /\ NoMultipartCall

C19_Witness ==
  /\ probe_status = "fail"
  /\ Returned
  /\ result = FailureResult(Video, <<"Failed to get file info">>)
  /\ index = 1

\* C20: when locating the extractor ends without an executable, in either mode
\* the item returns success = false with the 'yt-dlp not found' message, no
\* probe or download subprocess has run, no storage call was made, and the
\* batch goes on
C20_NotFoundFailsOnlyTheItem ==
  [][pc = "locate" /\ yt_dlp_path' # "path" =>
       /\ pc' = "append"
       /\ result' = FailureResult(Video, YtDlpNotFound)
       /\ probe_calls' = 0 /\ spawn_calls' = 0 /\ capture_calls' = 0
       /\ NoMultipartCall' /\ put_calls' = 0]_vars

\* how many of the subprocess's writes go to pipe p
WritesTo(p) == Cardinality({i \in 1..Len(child_script) : child_script[i] = p})

\* C17: whatever the subprocess writes to stdout and stderr, and in whatever
\* order, the read loop and the stderr thread do not block each other: the
\* popen3 block is left, and when no storage call raised stdout was read up to
\* end of file and the stderr thread was joined
C17_PipesNeverDeadlock ==
  <>(pipe_pc = "done" /\ (~pipe_raised => pipe_eof /\ pipe_joined))

C17_Witness ==
  /\ pipe_pc = "done"
  /\ ~pipe_raised
  /\ pipe_eof
  /\ pipe_joined
  /\ WritesTo("err") > PipeCap
  /\ WritesTo("out") > PipeCap
  /\ child_script[1] = "err"
  /\ child_script[2] = "err"

\* the current item was handled by download_video and its result is there
LocalReturned == Returned /\ ~direct_s3_upload

\* C21 as stated: in local mode a successful extractor run whose file was
\* located is always followed by one put_object before the result is returned
C21_LocatedFileIsAlwaysPut ==
  LocalReturned /\ result.success => put_calls = 1

\* C21: in local mode the located file of a successful extractor run is handed
\* to one put_object before the result is returned exactly when UPLOAD_TO_S3 is
\* 'true', a failed item puts nothing, and no multipart call is made
C21_LocatedFileIsPutWhenConfigured ==
  LocalReturned =>
    /\ result.success => put_calls = (IF upload_to_s3_env THEN 1 ELSE 0)
    /\ ~result.success => put_calls = 0
    /\ NoMultipartCall
    /\ spawn_calls = 0

C21_Witness ==
  /\ LocalReturned
  /\ upload_to_s3_env
  /\ capture_calls = 1
  /\ put_calls = 1
  /\ result = LocalSuccessResult(Video)

\* C27: in local mode the outcome of put_object does not change the item's
\* result: download_video returns success = true with the file path whether or
\* not the object was stored, and the aggregate counts the item as successful
C27_PutFailureKeepsSuccess ==
  /\ LocalReturned /\ put_calls > 0 => result = LocalSuccessResult(Video)
  /\ put_stored => put_calls = 1
  /\ AggregateReturned /\ ~direct_s3_upload /\ upload_to_s3_env =>
       response.successful_downloads =
         Cardinality({i \in 1..Len(response.results) :
                        response.results[i].message = <<"Download successful">>})

C27_Witness ==
  /\ LocalReturned
  /\ put_calls = 1
  /\ ~put_stored
  /\ result.success
  /\ result.file_path = Video

\* C22: a session is created before any other call on it, receives no
\* upload_part after a complete or abort call, and is never aborted after its
\* complete call returned successfully
C22_SessionStateMachine ==
  [][/\ (Len(uploaded') > 0 \/ complete_calls' > 0 \/ abort_calls' > 0) => Initiated'
     /\ Len(uploaded') > Len(uploaded) => complete_calls = 0 /\ abort_calls = 0
     /\ abort_calls' > abort_calls => ~Committed]_vars

\* C23: the streaming method returns success = true exactly when the item's
\* session committed an object at the destination key
C23_ResultMatchesStorage ==
  Returned /\ direct_s3_upload => (result.success <=> Committed)

\* C24: a batch of n >= 1 items is paused n - 1 times; a pause comes after the
\* result of item i was appended and before item i + 1 starts, never before the
\* first item or after the last, and an item starts only when the results of
\* all earlier items are appended
C24_PausesBetweenItems ==
  [][/\ sleep_count' # sleep_count =>
          /\ Len(download_results) = started
          /\ sleep_count' = started
          /\ started < Len(untranscribed_videos)
     /\ started' # started =>
          /\ Len(download_results) = started
          /\ sleep_count = started
     /\ pc' = "returned" /\ untranscribed_videos # <<>> =>
          sleep_count' = Len(untranscribed_videos) - 1]_vars

\* C25: the lines the stderr thread retains stay within a fixed bound however
\* many lines the subprocess writes: fewer are kept than the longest output has
C25_DiagnosticBufferBounded ==
  error_output_len < MaxWrites

\* e begins with a double quote
StartsQuoted(e) == Len(e) > 0 /\ e[1] = Quote

\* C26: the etag stored for a part begins with a double quote; an identifier
\* that already began with one is stored unchanged, any other is stored inside
\* one pair of double quotes, and normalising a second time changes nothing
C26_EtagQuotedOnce ==
  /\ etag_pc # "raw" =>
       /\ StartsQuoted(etag_value)
       /\ StartsQuoted(raw_etag) => etag_value = raw_etag
       /\ ~StartsQuoted(raw_etag) =>
            /\ Len(etag_value) = Len(raw_etag) + 2
            /\ etag_value[Len(etag_value)] = Quote
            /\ SubSeq(etag_value, 2, Len(etag_value) - 1) = raw_etag
  /\ etag_pc = "again" => etag_again = etag_value
  /\ \A i \in 1..Len(parts) : StartsQuoted(parts[i].etag)

C26_Witness ==
  /\ etag_pc = "again"
  /\ raw_etag = <<"e", "f">>
  /\ etag_value = <<Quote, "e", "f", Quote>>
  /\ etag_again = etag_value

\* the item is marked as transcribed, in either representation
Marked(item) == item.transcribed \in {NumberOne, BoolTrue}

\* C28: a run of UpdateTranscribed leaves a marked item marked, turns true into
\* 1 and false into 0, keeps 1 and 0, and a second run changes nothing; no
\* marked item is in the backlog that is fetched afterwards
C28_UpdateTranscribedIdempotent ==
  [][/\ \A k \in DOMAIN catalog : Marked(catalog[k]) => Marked(catalog'[k])
     /\ update_runs' > 1 => catalog' = catalog]_vars

\* C29: an ingest of a video_id that exists changes views, created_at and
\* updated_at only, so no item gets through the scan filter that did not
\* before; an absent video_id is appended with transcribed = false
C29_ReingestKeepsFlag ==
  [][/\ Len(catalog') >= Len(catalog)
     /\ \A k \in DOMAIN catalog :
          /\ catalog'[k] = [catalog[k] EXCEPT !.views = catalog'[k].views,
                                              !.created_at = catalog'[k].created_at,
                                              !.updated_at = catalog'[k].updated_at]
          /\ ScanFilter(catalog'[k]) => ScanFilter(catalog[k])
     /\ \A k \in DOMAIN catalog' \ DOMAIN catalog :
          /\ catalog'[k].transcribed = BoolFalse
          /\ \A j \in DOMAIN catalog : catalog[j].video_id # catalog'[k].video_id]_vars

C29_Witness ==
  \E k \in DOMAIN catalog :
    /\ catalog[k].transcribed = NumberOne
    /\ catalog[k].title = "old"
    /\ catalog[k].views = 1
    /\ catalog[k].updated_at = 1
    /\ Len(catalog) = MaxItems
    /\ ingested # {}

\* the transcribed flag of the item says what the query parameter asks for
MatchesParam(item, param) ==
  IF ToLowerCase(param) = "true"
    THEN item.transcribed \in {BoolTrue, NumberOne}
    ELSE item.transcribed \in {BoolFalse, NumberZero}

\* C30: a response to GET /api/videos with a transcribed parameter holds only
\* items whose flag matches the parameter, on the index path and on the scan
\* path, and never more than limit items
C30_VideosMatchTranscribedParam ==
  api_pc = "responded" =>
    /\ Len(api_videos) <= api_limit
    /\ api_param \notin {NoParam, ""} =>
         \A i \in 1..Len(api_videos) : MatchesParam(api_videos[i], api_param)

====
